---------------------------- MODULE Spec2Model ----------------------------
(***************************************************************************)
(* A model of the vbox crate (src/src/lib.rs): the VBox container, the     *)
(* into_vbox! macro that packs a value behind a trait object and erases    *)
(* the trait, and the from_vbox! macro that rebuilds the Box<dyn Trait>.   *)
(*                                                                         *)
(* Pointers are modelled as numbers.  A fat pointer is a record            *)
(* [ptr, vt]: the data address and the vtable address.  A vtable address   *)
(* stands for the vtable of one (trait, concrete type) pair.  A TypeId is  *)
(* a number, different for different types; `dyn Debug` and `u64` are      *)
(* different types.                                                        *)
(***************************************************************************)
EXTENDS Integers, Sequences, FiniteSets, TLC

\* Bounds of the model.
MaxBoxes == 2
MaxMoves == 2

(***************************************************************************)
(* The types of the test suite and the crate documentation.                *)
(***************************************************************************)
Concrete(n) == [kind |-> "concrete", name |-> n]
Dyn(c) == [kind |-> "dyn", name |-> c]

ConcreteNames == <<"u64", "Foo">>
TraitNames == <<"Any", "Debug", "Display", "Plus">>

\* The traits a from_vbox! call site may name, and those the into_vbox! call
\* sites of the tests and of the crate documentation name.
Traits == {"Debug", "Display", "Plus"}
PackTraits == {"Debug", "Plus"}

\* impl Trait for T: u64 is Debug and Display (std) and Plus (test_plus);
\* Foo is Plus (test_drop).  Every 'static type is Any.
Impl(T, c) ==
    \/ c = "Any"
    \/ T = "u64" /\ c \in {"Debug", "Display", "Plus"}
    \/ T = "Foo" /\ c = "Plus"

IndexOf(seq, x) == CHOOSE i \in 1..Len(seq) : seq[i] = x

\* TypeId::of::<ty>(): one number per type, no two types share one.
TypeIdOf(ty) ==
    IF ty.kind = "concrete"
    THEN IndexOf(ConcreteNames, ty.name)
    ELSE Len(ConcreteNames) + IndexOf(TraitNames, ty.name)

\* The address of the vtable of `impl c for T`.
VtableOf(c, T) ==
    4096 + 64 * ((IndexOf(TraitNames, c) - 1) * Len(ConcreteNames)
                 + (IndexOf(ConcreteNames, T) - 1))

VtTrait(vt) == TraitNames[(((vt - 4096) \div 64) \div Len(ConcreteNames)) + 1]
VtType(vt) == ConcreteNames[(((vt - 4096) \div 64) % Len(ConcreteNames)) + 1]

\* The heap address Box::new returns for the n-th allocation.
HeapAddr(n) == 65536 + 16 * n

NullPtr == [ptr |-> 0, vt |-> 0]

Builds == {"debug", "release"}
Threads == {1, 2}
\* The thread field of a value that no longer exists.
Nowhere == [thread |-> 0, moves |-> 0]

\* The shape of the macro argument $v: a place expression (a variable, as in
\* every test) or a value expression that makes a new value each time it is
\* evaluated (the literal of the crate doc, a constructor).
ArgKinds == {"place", "value"}

\* The values the packed payloads take: the variable v = 3u64 of test_debug
\* and test_plus, the literal 10u64 of the crate doc, and Foo, whose only
\* field is the shared drop counter.
ValuesOf(T, kind) ==
    IF T = "u64" THEN (IF kind = "place" THEN {3} ELSE {10}) ELSE {0}

\* The argument values the methods are invoked with.
Args == {0, 1}

VARIABLES build, boxes, heap

vars == <<build, boxes, heap>>

(***************************************************************************)
(* Trait methods.  Plus::plus on u64 is self + s (the values of the model *)
(* stay far from u64::MAX), on Foo it is s; Debug and Display on u64       *)
(* print the decimal digits.                                               *)
(***************************************************************************)
RECURSIVE DecDigits(_)
DecDigits(n) == IF n < 10 THEN <<n>> ELSE Append(DecDigits(n \div 10), n % 10)

Method(c, T, val, s) ==
    CASE c = "Plus" /\ T = "u64" -> [out |-> val + s]
      [] c = "Plus" /\ T = "Foo" -> [out |-> s]
      [] c \in {"Debug", "Display"} /\ T = "u64" -> [fmt |-> DecDigits(val)]
      [] OTHER -> [ub |-> TRUE]

HeapIndex(addr) == (addr - 65536) \div 16

\* A method call through the Box<dyn view> whose fat pointer is `fat`: the
\* call is dispatched through the vtable the fat pointer carries.  Calling
\* through a vtable of another trait, or on a destroyed payload, is
\* undefined behaviour.
Invoke(h, fat, view, s) ==
    LET obj == h[HeapIndex(fat.ptr)]
    IN  IF VtTrait(fat.vt) = view /\ VtType(fat.vt) = obj.T /\ obj.drops = 0
        THEN Method(view, obj.T, obj.val, s)
        ELSE [ub |-> TRUE]

\* drop_in_place of the payload at `fat.ptr`, as the drop of a Box<dyn _>
\* runs it through the first slot of its vtable.
DropBox(h, fat) ==
    [h EXCEPT ![HeapIndex(fat.ptr)].drops = @ + 1]

(***************************************************************************)
(* into_vbox!($t, $v)                                                      *)
(***************************************************************************)
\* The object the k-th evaluation of $v denotes: a place expression
\* denotes the same variable each time, a value expression a new value.
EvalArg(kind, k) == IF kind = "place" THEN 1 ELSE k

AnyTypeIdDynamic(self, T) == TypeIdOf(Concrete(T))
\* Any::type_id(x) for x: &Self, where the value behind x has the concrete
\* type T: the call is resolved statically, Self being the type of *x, and
\* `impl<S: 'static + ?Sized> Any for S` returns TypeId::of::<Self>().
AnyTypeId(self, T) == TypeIdOf(self)

PackTypeIdConcrete(c, T) == TypeIdOf(Concrete(T))
\* let trait_obj_ref: &$t = &$v; Any::type_id(trait_obj_ref)
PackTypeId(c, T) == AnyTypeId(Dyn(c), T)

\* let fat_ptr: *const $t = &$v; the second word of the fat pointer.
PackVtable(c, T) == VtableOf(c, T)

\* Box::new($v) coerced to Box<dyn Any + Send>, for the n-th allocation.
BoxNew(n, T) == [ptr |-> HeapAddr(n), vt |-> VtableOf("Any", T)]

\* VBox::new(data, vtable, type_id)
VBoxNew(data, vtable, type_id) ==
    [data |-> data, vtable |-> vtable, type_id |-> type_id]

IntoVBox(c, T, val, kind) ==
    LET n == Len(heap) + 1
        srcs == <<EvalArg(kind, 1), EvalArg(kind, 2), EvalArg(kind, 3)>>
        vb == VBoxNew(BoxNew(n, T), PackVtable(c, T), PackTypeId(c, T))
    IN  /\ Len(boxes) < MaxBoxes
        /\ Impl(T, c)
        /\ heap' = Append(heap, [T |-> T, val |-> val, drops |-> 0])
        /\ boxes' = Append(boxes,
              [T |-> T, C |-> c, val |-> val, kind |-> kind, payload |-> n,
               packed |-> vb,
               srcs |-> srcs,
               created |-> Cardinality({srcs[1], srcs[2], srcs[3]}),
               tempDrops |-> Cardinality({srcs[1], srcs[2]} \ {srcs[3]}),
               data |-> vb.data, vtable |-> vb.vtable, type_id |-> vb.type_id,
               thread |-> 1, moves |-> 0,
               phase |-> "vbox", as |-> "none",
               ret |-> NullPtr, actual |-> 0])
        /\ UNCHANGED build

(***************************************************************************)
(* VBox as a value: moved between threads, dropped.                        *)
(***************************************************************************)
MoveFieldsLosingVtable(b, t) ==
    [b EXCEPT !.thread = t, !.moves = @ + 1, !.vtable = 0]
\* A move of the VBox to thread t copies its three fields.
MoveFields(b, t) == [b EXCEPT !.thread = t, !.moves = @ + 1]

Move(i, t) ==
    /\ boxes[i].phase = "vbox"
    /\ boxes[i].moves < MaxMoves
    /\ t # boxes[i].thread
    /\ boxes' = [boxes EXCEPT ![i] = MoveFields(boxes[i], t)]
    /\ UNCHANGED <<build, heap>>

VBoxDropGlueLeak(h, b) == h
\* Dropping the VBox drops its field data: Box<dyn Any + Send>.
VBoxDropGlue(h, b) == DropBox(h, b.data)

DropVBox(i) ==
    /\ boxes[i].phase = "vbox"
    /\ heap' = VBoxDropGlue(heap, boxes[i])
    /\ boxes' = [boxes EXCEPT ![i].data = NullPtr, ![i].phase = "vboxDropped",
                    ![i].thread = Nowhere.thread, ![i].moves = Nowhere.moves]
    /\ UNCHANGED build

(***************************************************************************)
(* from_vbox!($t, $v)                                                      *)
(***************************************************************************)
UnpackAliasing(b) ==
    [self |-> b, data |-> b.data, vtable |-> b.vtable, type_id |-> b.type_id]
\* VBox::unpack(self) -> (data, vtable, type_id): self is consumed, its
\* fields are moved out.
Unpack(b) ==
    [self |-> [b EXCEPT !.data = NullPtr],
     data |-> b.data, vtable |-> b.vtable, type_id |-> b.type_id]

BoxIntoRawDropping(h, data) == DropBox(h, data)
\* Box::into_raw(data) runs no destructor: the heap is as it was, and the
\* raw fat pointer is the one the Box held.
BoxIntoRaw(h, data) == h

FatPtrAnyVtable(raw, vtable) == [ptr |-> raw.ptr, vt |-> raw.vt]
\* transmute((data_ptr, vtable_ptr)): the data word of the Any fat pointer
\* and the stored vtable word; the Any vtable word is discarded.
FatPtr(raw, vtable) == [ptr |-> raw.ptr, vt |-> vtable]

\* let trait_obj_ref = &*ret; Any::type_id(trait_obj_ref), ret: Box<$t>
UnpackTypeId(c, fat) == AnyTypeId(Dyn(c), VtType(fat.vt))

AssertAlways(b) == TRUE
DebugAssertionsInverted(b) == b = "release"
\* debug_assert_eq! is compiled only with debug assertions.
DebugAssertions(b) == b = "debug"

FromVBox(i, c) ==
    LET u == Unpack(boxes[i])
        h == BoxIntoRaw(heap, u.data)
        fat == FatPtr(u.data, u.vtable)
        actual == UnpackTypeId(c, fat)
    IN  /\ boxes[i].phase = "vbox"
        /\ IF DebugAssertions(build) /\ actual # u.type_id
           THEN \* The panic unwinds and drops ret.  ret carries the vtable
                \* stored at pack time; the drop slot is the first of every
                \* vtable, so the payload's own destructor runs.
                /\ heap' = DropBox(h, fat)
                /\ boxes' = [boxes EXCEPT ![i] =
                      [u.self EXCEPT !.as = c, !.actual = actual,
                                     !.phase = "panicked",
                                     !.thread = Nowhere.thread,
                                     !.moves = Nowhere.moves]]
           ELSE /\ heap' = h
                /\ boxes' = [boxes EXCEPT ![i] =
                      [u.self EXCEPT !.as = c, !.actual = actual,
                                     !.ret = fat, !.phase = "ret",
                                     !.moves = Nowhere.moves]]
        /\ UNCHANGED build

\* The reconstructed Box<$t> goes out of scope.
DropRet(i) ==
    /\ boxes[i].phase = "ret"
    /\ heap' = DropBox(heap, boxes[i].ret)
    /\ boxes' = [boxes EXCEPT ![i].ret = NullPtr, ![i].phase = "retDropped",
                    ![i].thread = Nowhere.thread]
    /\ UNCHANGED build

Init ==
    /\ build \in Builds
    /\ boxes = <<>>
    /\ heap = <<>>

Next ==
    \/ \E c \in PackTraits, T \in {"u64", "Foo"}, kind \in ArgKinds :
          \E val \in ValuesOf(T, kind) : IntoVBox(c, T, val, kind)
    \/ \E i \in 1..Len(boxes), t \in Threads : Move(i, t)
    \/ \E i \in 1..Len(boxes) : DropVBox(i)
    \/ \E i \in 1..Len(boxes), c \in Traits : FromVBox(i, c)
    \/ \E i \in 1..Len(boxes) : DropRet(i)

Spec == Init /\ [][Next]_vars

(***************************************************************************)
(* Properties                                                              *)
(***************************************************************************)
Idx == 1..Len(boxes)
Drops(i) == heap[boxes[i].payload].drops
\* from_vbox! has run on box i (it returned or it panicked).
Unpacked(i) == boxes[i].phase \in {"ret", "retDropped", "panicked"}
Returned(i) == boxes[i].phase \in {"ret", "retDropped"}

\* The owners of the payload at addr: the data field of a VBox, the
\* reconstructed Box.
Owners(addr) ==
    {<<i, f>> \in Idx \X {"data", "ret"} :
        IF f = "data" THEN boxes[i].data.ptr = addr
                      ELSE boxes[i].ret.ptr = addr}

\* C1: unpacking under the capability used to pack yields a handle whose
\* data address is the payload's heap address and whose vtable address is
\* the one recorded at pack time for (C, T), not the Any vtable; every
\* method called through it gives what the method gives on the payload.
C1_RoundTrip ==
    \A i \in Idx :
        LET b == boxes[i]
        IN  (b.phase = "ret" /\ b.as = b.C) =>
               /\ b.ret.ptr = HeapAddr(b.payload)
               /\ heap[HeapIndex(b.ret.ptr)].val = b.val
               /\ b.ret.vt = VtableOf(b.C, b.T)
               /\ b.ret.vt # VtableOf("Any", b.T)
               /\ \A s \in Args :
                     Invoke(heap, b.ret, b.as, s) = Method(b.C, b.T, b.val, s)

C1_Witness ==
    \E i \in Idx :
        /\ boxes[i].phase = "ret" /\ boxes[i].as = "Plus"
        /\ boxes[i].C = "Plus" /\ boxes[i].T = "u64" /\ boxes[i].val = 3
        /\ Invoke(heap, boxes[i].ret, "Plus", 1) = [out |-> 4]

\* C2: a VBox dropped without being unpacked has run its payload's
\* destructor exactly once, whatever trait it was packed under; until then
\* the destructor has not run.
C2_DropOnDiscard ==
    \A i \in Idx :
        /\ boxes[i].phase = "vbox" => Drops(i) = 0
        /\ boxes[i].phase = "vboxDropped" => Drops(i) = 1

C2_Witness ==
    \E i, j \in Idx :
        /\ boxes[i].phase = "vboxDropped" /\ boxes[j].phase = "vboxDropped"
        /\ boxes[i].C # boxes[j].C
        /\ Drops(i) = 1 /\ Drops(j) = 1

\* C3: from_vbox! under the pack-time capability runs no payload
\* destructor (the VBox is consumed into its fields and its Box released
\* to a raw pointer without one), and dropping the rebuilt handle
\* afterwards runs it exactly once.
C3_DropOnUnpackThenDrop ==
    \A i \in Idx :
        boxes[i].as = boxes[i].C =>
            /\ boxes[i].phase = "ret" => Drops(i) = 0
            /\ boxes[i].phase = "retDropped" => Drops(i) = 1

C3_Witness ==
    \E i \in Idx :
        /\ boxes[i].as = boxes[i].C /\ boxes[i].phase = "retDropped"
        /\ boxes[i].T = "Foo" /\ Drops(i) = 1

\* C4: a VBox moved between threads keeps the three fields it was packed
\* with, and unpacking it on the thread it arrived at, under the pack-time
\* capability, yields the handle of the round trip: the pack-time data
\* address and vtable address, with the methods' results; its payload is
\* destroyed exactly once.
C4_ThreadTransfer ==
    \A i \in Idx :
        LET b == boxes[i]
        IN  /\ (b.phase = "vbox" /\ b.moves > 0) =>
                  /\ b.data = b.packed.data
                  /\ b.vtable = b.packed.vtable
                  /\ b.type_id = b.packed.type_id
            /\ (b.phase = "ret" /\ b.as = b.C /\ b.thread # 1) =>
                  /\ b.ret.ptr = b.packed.data.ptr
                  /\ b.ret.vt = b.packed.vtable
                  /\ \A s \in Args :
                        Invoke(heap, b.ret, b.as, s)
                           = Method(b.C, b.T, b.val, s)
            /\ (b.phase = "retDropped" /\ b.as = b.C) => Drops(i) = 1
            /\ Drops(i) <= 1

C4_Witness ==
    \E i, j \in Idx :
        /\ boxes[i].phase = "ret" /\ boxes[i].as = boxes[i].C
        /\ boxes[i].thread = 2
        /\ boxes[j].phase = "vbox" /\ boxes[j].moves = MaxMoves
        /\ boxes[j].vtable = VtableOf(boxes[j].C, boxes[j].T)

C9_SingleOwner ==
    \A n \in 1..Len(heap) :
        /\ heap[n].drops <= 1
        /\ Cardinality(Owners(HeapAddr(n))) = 1 - heap[n].drops
        /\ \A i \in Idx :
              (boxes[i].payload = n /\ boxes[i].phase = "panicked")
                 => heap[n].drops = 1

C9_Witness ==
    \E i, j \in Idx :
        /\ boxes[i].phase = "panicked" /\ Drops(i) = 1
        /\ boxes[j].phase = "ret" /\ Drops(j) = 0
        /\ Owners(HeapAddr(boxes[j].payload)) = {<<j, "ret">>}

\* C10: one into_vbox! evaluates its value argument once: the type_id, the
\* vtable word and the boxed payload come from the same value, one value
\* is created and no other value is destroyed.
C10_EvaluatedOnce ==
    \A i \in Idx :
        /\ boxes[i].created = 1
        /\ boxes[i].srcs[1] = boxes[i].srcs[3]
        /\ boxes[i].srcs[2] = boxes[i].srcs[3]
        /\ boxes[i].tempDrops = 0

=============================================================================
